---- MODULE Spec2Model ----
(***************************************************************************)
(* A model of the CoinTracker wallet manager: the Wallet (cointracker.go), *)
(* the SQLite gateway (package data) and the HTTP handlers that drive them *)
(* (runner/main.go).                                                       *)
(***************************************************************************)
EXTENDS Integers, Sequences, FiniteSets, TLC

VARIABLES
    wallet,        \* committed rows of table wallet, in insertion order
    transactions,  \* committed rows of table transactions, in insertion order
    tx,            \* per owner: the *sql.Tx it holds (Nil when none)
    crashed,       \* the panic the process died of (NoPanic while it runs)
    hpc,           \* per HTTP handler: where it is in Wallet.AddAddress / RemoveAddress
    haddr,         \* per HTTP handler: the address of its request
    hret,          \* per HTTP handler: what its call returned, until it has answered the request
    added,         \* per address: an AddAddress call returned without error since it was last removed
    pc,            \* per fetcher goroutine: its position
    addresses,     \* per sync pass: the list GetAllAddresses returned
    ai,            \* per sync pass: index into addresses of the address in progress
    results,       \* per sync pass: the results slice
    ri,            \* per sync pass: index into results of the persistence loop
    faddr,         \* per fetcher: the address fetchAddressData was called with
    offset,        \* per fetcher: fetchAddressData's offset
    data,          \* per fetcher: fetchAddressData's data (Nil until the first page)
    allTxs,        \* per fetcher: fetchAddressData's allTxs
    fret,          \* per fetcher: what fetchAddressData returned
    log,           \* per sync pass: what it logged, as (message, address) pairs
    requests,      \* per fetcher: the page requests and pauses of its fetchAddressData call
    gout           \* the last call of a DatabaseConnection method by a caller other than the Wallet, and its outcome

vars == <<wallet, transactions, tx, crashed, hpc, haddr, hret, added, pc, addresses,
          ai, results, ri, faddr, offset, data, allTxs, fret, log, requests, gout>>

Nil == [nil |-> TRUE]

\* ---------------------------------------------------------------- constants
\* fetchAddressData: limit
Limit == 50
\* AddAddress: the longest address accepted
MaxAddressLen == 42

Addrs == {"A", "B"}
\* what a request may carry as its address: tracked-able ones and an empty one
AddrInputs == Addrs \cup {""}

Passes == {"p1", "p2"}
Bgs == {"bg"}
Fetchers == Passes \cup Bgs
Handlers == {"h1"}
\* who may hold a *sql.Tx: a sync pass, or a direct caller of the gateway
Owners == Passes \cup {"g"}

\* ---------------------------------------------------------------- SQLite
Min(a, b) == IF a < b THEN a ELSE b
Max(a, b) == IF a > b THEN a ELSE b

RECURSIVE IntToText(_)
\* the TEXT affinity of column tx_index: an integer bound to it is stored as its
\* decimal digits
IntToText(n) == IF n < 10 THEN <<n>> ELSE Append(IntToText(n \div 10), n % 10)

RECURSIVE TextLess(_, _)
\* BINARY collation of two TEXT values: bytewise, a proper prefix first
TextLess(s, t) ==
    IF s = <<>> THEN t # <<>>
    ELSE IF t = <<>> THEN FALSE
    ELSE IF Head(s) # Head(t) THEN Head(s) < Head(t)
    ELSE TextLess(Tail(s), Tail(t))

\* the rows of table t whose position is in keep, in table order
RECURSIVE SelectRows(_, _)
SelectRows(t, keep) ==
    IF t = <<>> THEN <<>>
    ELSE LET rest == SelectRows(Tail(t), {i - 1 : i \in keep \ {1}})
         IN  IF 1 \in keep THEN <<Head(t)>> \o rest ELSE rest

\* checkAddressQuery
ExistsAddress(w, a) == \E i \in 1..Len(w) : w[i].address = a

\* insertAddressQuery: address is the PRIMARY KEY, balance defaults to 0
InsertAddress(w, a) ==
    IF ExistsAddress(w, a)
    THEN [err |-> TRUE, rows |-> 0, table |-> w]
    ELSE [err |-> FALSE, rows |-> 1, table |-> Append(w, [address |-> a, balance |-> 0])]

\* removeAddressQuery
DeleteAddress(w, a) ==
    LET kept == SelectRows(w, {i \in 1..Len(w) : w[i].address # a})
    IN  [err |-> FALSE, rows |-> Len(w) - Len(kept), table |-> kept]

\* removeTxQuery
DeleteTxs(t, a) ==
    SelectRows(t, {i \in 1..Len(t) : t[i].address # a})

\* updateBalaceQuery
SetBalance(w, a, b) ==
    [err |-> FALSE,
     rows |-> Cardinality({i \in 1..Len(w) : w[i].address = a}),
     table |-> [i \in 1..Len(w) |->
                  IF w[i].address = a THEN [w[i] EXCEPT !.balance = b] ELSE w[i]]]

\* updateTxQuery as INSERT OR REPLACE: a stored row of the index is overwritten
InsertOrReplaceTx(t, index, hash, address, payload) ==
    LET row == [tx_index |-> IntToText(index), hash |-> hash, address |-> address,
                data |-> payload]
    IN  IF \E i \in 1..Len(t) : t[i].tx_index = IntToText(index)
        THEN [rows |-> 1,
              table |-> [i \in 1..Len(t) |->
                           IF t[i].tx_index = IntToText(index) THEN row ELSE t[i]]]
        ELSE [rows |-> 1, table |-> Append(t, row)]

\* updateTxQuery: INSERT OR IGNORE, tx_index alone is the PRIMARY KEY
InsertOrIgnoreTx(t, index, hash, address, payload) ==
    IF \E i \in 1..Len(t) : t[i].tx_index = IntToText(index)
    THEN [rows |-> 0, table |-> t]
    ELSE [rows |-> 1,
          table |-> Append(t, [tx_index |-> IntToText(index), hash |-> hash,
                               address |-> address, data |-> payload])]

\* validateEffectedRows rejecting only more than one row
RowsAboveOne(rows) == rows > 1

\* validateEffectedRows: TRUE when it returns an error
ValidateEffectedRowsFails(rows) == rows # 1

\* ---------------------------------------------------------------- package data
\* another connection holds SQLite's write lock: a statement of o that writes
\* fails with "database is locked"
Busy(o) == \E q \in Owners \ {o} : tx[q] # Nil /\ tx[q].wrote

\* what the statements of a transaction t see: what it staged, once it wrote
TxWallet(t) == IF t.wrote THEN t.wallet ELSE wallet
TxTransactions(t) == IF t.wrote THEN t.transactions ELSE transactions

\* DatabaseConnection.StartTransaction: a deferred transaction, nothing locked yet
StartTransaction(fail) ==
    IF fail THEN [err |-> TRUE, tx |-> Nil]
    ELSE [err |-> FALSE, tx |-> [wrote |-> FALSE, wallet |-> <<>>, transactions |-> <<>>]]

\* DatabaseConnection.CheckAddress
CheckAddress(address, fail) ==
    IF fail THEN [exists |-> FALSE, err |-> TRUE]
    ELSE [exists |-> ExistsAddress(wallet, address), err |-> FALSE]

\* DatabaseConnection.AddAddress, on the connection pool (no transaction)
AddAddress(address, fail) ==
    LET r == InsertAddress(wallet, address)
    IN  IF fail \/ Busy("pool") \/ r.err THEN [err |-> TRUE, wallet |-> wallet]
        ELSE [err |-> ValidateEffectedRowsFails(r.rows), wallet |-> r.table]

\* DatabaseConnection.RemoveAddress with its statements on the connection pool,
\* outside a transaction: what ran before a failure stays
RemoveAddressNoTransaction(address, failAt) ==
    LET r == DeleteAddress(wallet, address)
        same == [err |-> TRUE, wallet |-> wallet, transactions |-> transactions]
    IN  IF failAt \in {"begin", "address"} \/ Busy("pool") THEN same
        ELSE IF ValidateEffectedRowsFails(r.rows) THEN same
        ELSE IF failAt \in {"txs", "commit"}
             THEN [err |-> TRUE, wallet |-> r.table, transactions |-> transactions]
        ELSE [err |-> FALSE, wallet |-> r.table,
              transactions |-> DeleteTxs(transactions, address)]

\* DatabaseConnection.RemoveAddress: its own transaction, rolled back by the
\* deferred Rollback on every early return. failAt names the statement the
\* driver fails, "none" for no failure.
RemoveAddress(address, failAt) ==
    LET r == DeleteAddress(wallet, address)
        same == [err |-> TRUE, wallet |-> wallet, transactions |-> transactions]
    IN  IF failAt = "begin" THEN same
        ELSE IF failAt = "address" \/ Busy("pool") THEN same
        ELSE IF ValidateEffectedRowsFails(r.rows) THEN same
        ELSE IF failAt = "txs" THEN same
        ELSE IF failAt = "commit" THEN same
        ELSE [err |-> FALSE, wallet |-> r.table,
              transactions |-> DeleteTxs(transactions, address)]

\* DatabaseConnection.UpdateBalance without validateEffectedRows
UpdateBalanceUnchecked(o, t, address, balance, fail) ==
    LET r == SetBalance(TxWallet(t), address, balance)
    IN  IF fail \/ Busy(o) THEN [err |-> TRUE, tx |-> t]
        ELSE [err |-> FALSE,
              tx |-> [wrote |-> TRUE, wallet |-> r.table,
                      transactions |-> TxTransactions(t)]]

\* DatabaseConnection.UpdateBalance, inside o's transaction t
UpdateBalance(o, t, address, balance, fail) ==
    LET r == SetBalance(TxWallet(t), address, balance)
    IN  IF fail \/ Busy(o) THEN [err |-> TRUE, tx |-> t]
        ELSE [err |-> ValidateEffectedRowsFails(r.rows),
              tx |-> [wrote |-> TRUE, wallet |-> r.table,
                      transactions |-> TxTransactions(t)]]

\* the first n of txs inserted into t for address, one updateTxQuery each
RECURSIVE InsertTxs(_, _, _, _)
InsertTxs(t, address, txs, n) ==
    IF n = 0 THEN t
    ELSE InsertOrIgnoreTx(InsertTxs(t, address, txs, n - 1), txs[n].Index,
                          txs[n].Hash, address, txs[n].Data).table

\* DatabaseConnection.UpdateTransactions, inside o's transaction t. failAt is the
\* position in d.Txs of the statement the driver fails, 0 for no failure.
UpdateTransactions(o, t, d, failAt) ==
    LET at == IF Busy(o) /\ Len(d.Txs) > 0 THEN 1 ELSE failAt
        done == IF at = 0 THEN Len(d.Txs) ELSE at - 1
    IN  [err |-> at # 0,
         tx |-> IF done = 0 THEN t
                ELSE [wrote |-> TRUE, wallet |-> TxWallet(t),
                      transactions |-> InsertTxs(TxTransactions(t), d.Address, d.Txs, done)]]

\* DatabaseConnection.CommitTransaction: SQLite applies all of the transaction's
\* writes or, when the commit fails, none
CommitTransaction(t, fail) ==
    IF fail \/ ~t.wrote
    THEN [err |-> fail, wallet |-> wallet, transactions |-> transactions]
    ELSE [err |-> FALSE, wallet |-> t.wallet, transactions |-> t.transactions]

\* getBalanceQuery over table w, scanned into balance: no row is an error
SelectBalance(w, address) ==
    IF ExistsAddress(w, address)
    THEN [err |-> FALSE,
          balance |-> w[CHOOSE i \in 1..Len(w) : w[i].address = address].balance]
    ELSE [err |-> TRUE, balance |-> 0]

\* DatabaseConnection.GetBalance
GetBalance(address) == SelectBalance(wallet, address)

\* DatabaseConnection.GetAllAddresses
GetAllAddresses == [i \in 1..Len(wallet) |-> wallet[i].address]

\* ORDER BY tx_index DESC over rows: the greatest TEXT first
RECURSIVE OrderByTxIndexDesc(_)
OrderByTxIndexDesc(rows) ==
    IF rows = {} THEN <<>>
    ELSE LET top == CHOOSE r \in rows :
                      \A q \in rows \ {r} : TextLess(q.tx_index, r.tx_index)
         IN  <<top>> \o OrderByTxIndexDesc(rows \ {top})

\* getTransactionsQuery over table t: the data column of the address's rows
SelectTransactions(t, address) ==
    LET rows == {t[i] : i \in {j \in 1..Len(t) : t[j].address = address}}
        sorted == OrderByTxIndexDesc(rows)
    IN  [i \in 1..Len(sorted) |-> sorted[i].data]

\* DatabaseConnection.GetTransactions
GetTransactions(address) == SelectTransactions(transactions, address)

\* ---------------------------------------------------------------- upstream API
\* the record at position pos of an address's history, as the API serves it:
\* its bytes and its hash (each named by a number), and what json.Unmarshal
\* makes of the bytes. bad names what is wrong with it: "none", "json" (not a JSON object),
\* "noindex" / "indextype" (tx_index absent / not a number), "nohash" /
\* "hashtype" (hash absent / not a string)
RawTx(pos, bad) ==
    [bytes    |-> pos,
     json     |-> bad # "json",
     tx_index |-> [kind  |-> CASE bad = "noindex" -> "absent"
                               [] bad = "indextype" -> "string"
                               [] OTHER -> "number",
                   value |-> pos],
     hash     |-> [kind  |-> CASE bad = "nohash" -> "absent"
                               [] bad = "hashtype" -> "number"
                               [] OTHER -> "string",
                   value |-> pos]]

\* a page of k records starting after offset off; a bad record is the page's last
PageTxs(off, k, bad) ==
    [i \in 1..k |-> RawTx(off + i, IF i = k THEN bad ELSE "none")]

\* the kinds of failed page fetch: http.Get fails, status is not 200, the body
\* cannot be read, the body is not the JSON of a RawAddressResponse
FailKinds == {"transport", "status", "read", "parse"}

\* a response with status 200 and a parseable body
OkResponse(address, off, ntx, bal, k, bad) ==
    [kind |-> "ok", Address |-> address, NTx |-> ntx, FinalBalance |-> bal,
     Txs |-> PageTxs(off, k, bad)]

FailedResponse(kind) ==
    [kind |-> kind, Address |-> "", NTx |-> 0, FinalBalance |-> 0, Txs |-> <<>>]

\* the answers of the API to a page request, drawn from the given sets
Responses(address, off, fails, ntxs, bals, counts, bads) ==
    {FailedResponse(k) : k \in fails}
    \cup {OkResponse(address, off, n, b, k, bd) :
            n \in ntxs, b \in bals, k \in counts, bd \in bads}

\* ---------------------------------------------------------------- cointracker.go
\* fetchAddressData, the body of the loop over response.Txs for one record:
\* "err" when json.Unmarshal fails, "panic" when a type assertion on tx_index or
\* hash fails, else the types.Transaction
Normalize(rawTx) ==
    IF ~rawTx.json THEN [status |-> "err", tx |-> Nil]
    ELSE IF rawTx.tx_index.kind # "number" THEN [status |-> "panic", tx |-> Nil]
    ELSE IF rawTx.hash.kind # "string" THEN [status |-> "panic", tx |-> Nil]
    ELSE [status |-> "ok",
          tx |-> [Index |-> rawTx.tx_index.value, Hash |-> rawTx.hash.value,
                  Data |-> rawTx.bytes]]

\* fetchAddressData, the loop over response.Txs: the records before the first one
\* that stops the loop are appended to acc; the status is that record's, "ok"
\* when none stops it
ProcessTxs(acc, txs) ==
    LET stops == {i \in 1..Len(txs) : Normalize(txs[i]).status # "ok"}
        first == IF stops = {} THEN Len(txs) + 1
                 ELSE CHOOSE i \in stops : \A j \in stops : i <= j
    IN  [status |-> IF stops = {} THEN "ok" ELSE Normalize(txs[first]).status,
         txs    |-> acc \o [i \in 1..(first - 1) |-> Normalize(txs[i]).tx]]

\* fetchAddressData setting data from every page
FirstPageDataEveryPage(d, response) ==
    [Address |-> response.Address, NumTxs |-> response.NTx,
     Balance |-> response.FinalBalance]

\* fetchAddressData, "Only set once on first pass"
FirstPageData(d, response) ==
    IF d = Nil
    THEN [Address |-> response.Address, NumTxs |-> response.NTx,
          Balance |-> response.FinalBalance]
    ELSE d

\* LastPage going on when the offset has just reached the total
LastPagePastTotal(newOffset, response) ==
    Len(response.Txs) < Limit \/ newOffset > response.NTx

\* LastPage without the comparison of offset with the total
LastPageByCountOnly(newOffset, response) == Len(response.Txs) < Limit

\* LastPage without the comparison of the page's length with limit
LastPageByTotalOnly(newOffset, response) == newOffset >= response.NTx

\* fetchAddressData, "Check if more pages exist": TRUE when the loop breaks
LastPage(newOffset, response) ==
    Len(response.Txs) < Limit \/ newOffset >= response.NTx

\* fetchAddressData, "data.Txs = allTxs"
Snapshot(d, txs) ==
    [Address |-> d.Address, NumTxs |-> d.NumTxs, Balance |-> d.Balance, Txs |-> txs]

NoFetch == [data |-> Nil, err |-> "none"]
NoCall == [op |-> "none", address |-> "", exists |-> FALSE, err |-> FALSE,
           changed |-> FALSE, again |-> FALSE]
NoGatewayCall == [op |-> "none", address |-> "", err |-> FALSE, rows |-> 0,
                  indexes |-> {}, differs |-> FALSE]
NoPanic == [by |-> "", why |-> "none"]

\* the memory of the process as main leaves it: no request in progress, no goroutine
Fresh ==
    /\ tx' = [o \in Owners |-> Nil]
    /\ hpc' = [h \in Handlers |-> "idle"]
    /\ haddr' = [h \in Handlers |-> ""]
    /\ hret' = [h \in Handlers |-> NoCall]
    /\ pc' = [f \in Fetchers |-> "idle"]
    /\ addresses' = [p \in Passes |-> <<>>]
    /\ ai' = [p \in Passes |-> 0]
    /\ results' = [p \in Passes |-> <<>>]
    /\ ri' = [p \in Passes |-> 0]
    /\ faddr' = [f \in Fetchers |-> ""]
    /\ offset' = [f \in Fetchers |-> 0]
    /\ data' = [f \in Fetchers |-> Nil]
    /\ allTxs' = [f \in Fetchers |-> <<>>]
    /\ fret' = [f \in Fetchers |-> NoFetch]
    /\ requests' = [f \in Fetchers |-> <<>>]

\* a panic in goroutine f that nothing recovers ends the process: its memory is
\* gone, SQLite drops what open transactions had staged, data.db and what was
\* logged stay
Crash(f, why) ==
    /\ crashed' = [by |-> f, why |-> why]
    /\ Fresh
    /\ UNCHANGED <<wallet, transactions, added, gout>>

\* the call w.fetchAddressData(address) by goroutine f: its locals
StartFetch(f, address) ==
    /\ pc' = [pc EXCEPT ![f] = "fetch"]
    /\ faddr' = [faddr EXCEPT ![f] = address]
    /\ offset' = [offset EXCEPT ![f] = 0]
    /\ data' = [data EXCEPT ![f] = Nil]
    /\ allTxs' = [allTxs EXCEPT ![f] = <<>>]
    /\ fret' = [fret EXCEPT ![f] = NoFetch]
    /\ requests' = [requests EXCEPT ![f] = <<>>]

\* what fetchAddressData returned was consumed: its locals are gone
EndFetch(f) ==
    /\ faddr' = [faddr EXCEPT ![f] = ""]
    /\ offset' = [offset EXCEPT ![f] = 0]
    /\ data' = [data EXCEPT ![f] = Nil]
    /\ allTxs' = [allTxs EXCEPT ![f] = <<>>]
    /\ fret' = [fret EXCEPT ![f] = NoFetch]
    /\ requests' = [requests EXCEPT ![f] = <<>>]

\* fetchAddressData returning what it has collected so far along with the error
ReturnFetchPartial(f, d, err) ==
    /\ fret' = [fret EXCEPT ![f] =
                  [data |-> IF d = Nil /\ data[f] # Nil
                            THEN Snapshot(data[f], allTxs[f]) ELSE d,
                   err |-> err]]
    /\ pc' = [pc EXCEPT ![f] = "returned"]

\* fetchAddressData returns (d, err) to goroutine f
ReturnFetch(f, d, err) ==
    /\ fret' = [fret EXCEPT ![f] = [data |-> d, err |-> err]]
    /\ pc' = [pc EXCEPT ![f] = "returned"]

\* the request fetchAddressData makes, as the API sees it, and what it got
Request(f, response) ==
    [kind |-> "get", offset |-> offset[f], ok |-> response.kind = "ok",
     count |-> Len(response.Txs), ntx |-> response.NTx]

\* fetchAddressData: one turn of its loop, from http.Get to the break or the return
FetchPage(f, response) ==
    /\ crashed = NoPanic
    /\ pc[f] = "fetch"
    /\ LET d == FirstPageData(data[f], response)
           p == ProcessTxs(allTxs[f], response.Txs)
           newOffset == offset[f] + Limit
       IN  IF response.kind = "ok" /\ p.status = "panic"
           THEN Crash(f, "type assertion") /\ UNCHANGED log
           ELSE /\ requests' = [requests EXCEPT ![f] = Append(@, Request(f, response))]
                /\ CASE response.kind # "ok" ->
                          /\ ReturnFetch(f, Nil, response.kind)
                          /\ UNCHANGED <<data, allTxs, offset>>
                     [] response.kind = "ok" /\ p.status = "err" ->
                          /\ ReturnFetch(f, Nil, "record")
                          /\ UNCHANGED <<data, allTxs, offset>>
                     [] OTHER ->
                          /\ data' = [data EXCEPT ![f] = d]
                          /\ allTxs' = [allTxs EXCEPT ![f] = p.txs]
                          /\ offset' = [offset EXCEPT ![f] = newOffset]
                          /\ IF LastPage(newOffset, response)
                             THEN ReturnFetch(f, Snapshot(d, p.txs), "none")
                             ELSE /\ pc' = [pc EXCEPT ![f] = "pageSleep"]
                                  /\ UNCHANGED fret
                /\ UNCHANGED <<wallet, transactions, tx, crashed, hpc, haddr, hret, added,
                               addresses, ai, results, ri, faddr, log, gout>>

\* fetchAddressData going on to the next page without the pause
PageSleepNotTaken(f) ==
    /\ crashed = NoPanic
    /\ pc[f] = "pageSleep"
    /\ pc' = [pc EXCEPT ![f] = "fetch"]
    /\ UNCHANGED <<wallet, transactions, tx, crashed, hpc, haddr, hret, added, addresses,
                   ai, results, ri, faddr, offset, data, allTxs, fret, log, requests, gout>>

\* fetchAddressData: time.Sleep(time.Second * 15) between two pages
PageSleep(f) ==
    /\ crashed = NoPanic
    /\ pc[f] = "pageSleep"
    /\ pc' = [pc EXCEPT ![f] = "fetch"]
    /\ requests' = [requests EXCEPT ![f] = Append(@, [kind |-> "sleep"])]
    /\ UNCHANGED <<wallet, transactions, tx, crashed, hpc, haddr, hret, added, addresses,
                   ai, results, ri, faddr, offset, data, allTxs, fret, log, gout>>

\* log.Printf / log.Println by pass p
Log(p, msg, address) == log' = [log EXCEPT ![p] = @ \cup {<<msg, address>>}]

\* the positions at which the model lets the driver fail one of n statements
FailPoints(n) == {0} \cup ({1, n} \cap 1..n)

\* make([]*types.AddressData, 0, n): an empty slice
MakeResultsEmpty(n) == <<>>

\* SyncWallets, make([]*types.AddressData, len(*addresses)): a slice of n nil entries
MakeResults(n) == [i \in 1..n |-> Nil]

\* syncWallets launches SyncWallets, which runs to its first fetchAddressData:
\* GetAllAddresses, the results slice of len(*addresses) nil entries
SyncStart(p, fail) ==
    /\ crashed = NoPanic
    /\ pc[p] \in {"idle", "done"}
    /\ IF fail
       THEN \* the error is logged, then *addresses dereferences nil
            /\ Crash(p, "nil addresses")
            /\ log' = [log EXCEPT ![p] = {<<"failed to get all addresses", "">>}]
       ELSE /\ log' = [log EXCEPT ![p] = {}]
            /\ addresses' = [addresses EXCEPT ![p] = GetAllAddresses]
            /\ results' = [results EXCEPT ![p] = MakeResults(Len(GetAllAddresses))]
            /\ ri' = [ri EXCEPT ![p] = 0]
            /\ IF Len(GetAllAddresses) = 0
               THEN /\ pc' = [pc EXCEPT ![p] = "begin"]
                    /\ ai' = [ai EXCEPT ![p] = 0]
                    /\ UNCHANGED <<faddr, offset, data, allTxs, fret, requests>>
               ELSE /\ ai' = [ai EXCEPT ![p] = 1]
                    /\ StartFetch(p, GetAllAddresses[1])
            /\ UNCHANGED <<wallet, transactions, tx, crashed, hpc, haddr, hret, added,
                           gout>>

\* SyncWallets: fetchAddressData returned; a failure is logged, a snapshot is
\* appended to results
FetchReturn(p) ==
    /\ crashed = NoPanic
    /\ pc[p] = "returned"
    /\ IF fret[p].err # "none"
       THEN Log(p, "Bad fetch for address", faddr[p]) /\ UNCHANGED results
       ELSE results' = [results EXCEPT ![p] = Append(@, fret[p].data)] /\ UNCHANGED log
    /\ pc' = [pc EXCEPT ![p] = "addrSleep"]
    /\ EndFetch(p)
    /\ UNCHANGED <<wallet, transactions, tx, crashed, hpc, haddr, hret, added, addresses,
                   ai, ri, gout>>

\* SyncWallets: time.Sleep(time.Second * 30), then the next address or the end
\* of the loop
AddrSleep(p) ==
    /\ crashed = NoPanic
    /\ pc[p] = "addrSleep"
    /\ IF ai[p] + 1 > Len(addresses[p])
       THEN /\ pc' = [pc EXCEPT ![p] = "begin"]
            /\ ai' = [ai EXCEPT ![p] = 0]
            /\ UNCHANGED <<faddr, offset, data, allTxs, fret, requests>>
       ELSE /\ ai' = [ai EXCEPT ![p] = @ + 1]
            /\ StartFetch(p, addresses[p][ai[p] + 1])
    /\ UNCHANGED <<wallet, transactions, tx, crashed, hpc, haddr, hret, added, addresses,
                   results, ri, log, gout>>

\* SyncWallets: StartTransaction; a failure is logged and the pass goes on
\* without a transaction. cointracker.go writes the gateway calls without the
\* *sql.Tx that their signatures in package data take; the model passes the
\* transaction StartTransaction returned to each of them.
SyncBegin(p, fail) ==
    /\ crashed = NoPanic
    /\ pc[p] = "begin"
    /\ tx' = [tx EXCEPT ![p] = StartTransaction(fail).tx]
    /\ IF StartTransaction(fail).err
       THEN Log(p, "failed to begin transaction during sync", "")
       ELSE UNCHANGED log
    /\ pc' = [pc EXCEPT ![p] = "persist"]
    /\ ri' = [ri EXCEPT ![p] = 1]
    /\ UNCHANGED <<wallet, transactions, crashed, hpc, haddr, hret, added, addresses, ai,
                   results, faddr, offset, data, allTxs, fret, requests, gout>>

\* SyncWallets, the body of the loop over results for one entry in transaction
\* t: UpdateBalance, then UpdateTransactions; their failures are logged only
PersistResult(p, t, result, failBalance, failAt) ==
    LET b == UpdateBalance(p, t, result.Address, result.Balance, failBalance)
        u == UpdateTransactions(p, b.tx, result, failAt)
    IN  [tx |-> u.tx,
         logged |-> (IF b.err THEN {<<"failed to update balance", result.Address>>}
                     ELSE {})
                    \cup (IF u.err
                          THEN {<<"failed to update transactions", result.Address>>}
                          ELSE {})]

\* SyncWallets: one turn of the loop over results. result.Address of a nil
\* entry panics, and so does a statement on a nil transaction.
SyncPersist(p, failBalance, failAt) ==
    /\ crashed = NoPanic
    /\ pc[p] = "persist"
    /\ ri[p] <= Len(results[p])
    /\ LET result == results[p][ri[p]]
       IN  IF result = Nil THEN Crash(p, "nil result") /\ UNCHANGED log
           ELSE IF tx[p] = Nil THEN Crash(p, "nil transaction") /\ UNCHANGED log
           ELSE /\ failAt \in FailPoints(Len(result.Txs))
                /\ tx' = [tx EXCEPT ![p] =
                            PersistResult(p, tx[p], result, failBalance, failAt).tx]
                /\ log' = [log EXCEPT ![p] = @ \cup
                            PersistResult(p, tx[p], result, failBalance, failAt).logged]
                /\ ri' = [ri EXCEPT ![p] = @ + 1]
                /\ UNCHANGED <<wallet, transactions, crashed, hpc, haddr, hret, added, pc,
                               addresses, ai, results, faddr, offset, data, allTxs, fret,
                               requests, gout>>

\* SyncWallets: CommitTransaction after the loop; a failure is logged
SyncCommit(p, fail) ==
    /\ crashed = NoPanic
    /\ pc[p] = "persist"
    /\ ri[p] > Len(results[p])
    /\ IF tx[p] = Nil THEN Crash(p, "nil transaction") /\ UNCHANGED log
       ELSE /\ wallet' = CommitTransaction(tx[p], fail).wallet
            /\ transactions' = CommitTransaction(tx[p], fail).transactions
            /\ log' = [log EXCEPT ![p] = @ \cup
                         (IF CommitTransaction(tx[p], fail).err
                          THEN {<<"failed to commit transaction", "">>} ELSE {})
                         \cup {<<"Successfully updated all values for wallet", "">>}]
            /\ tx' = [tx EXCEPT ![p] = Nil]
            /\ pc' = [pc EXCEPT ![p] = "done"]
            /\ UNCHANGED <<crashed, hpc, haddr, hret, added, addresses, ai, results, ri,
                           faddr, offset, data, allTxs, fret, requests, gout>>

\* the goroutine AddAddress launched storing the snapshot fetchAddressData returned
BgDoneStores(f) ==
    /\ crashed = NoPanic
    /\ pc[f] = "returned"
    /\ pc' = [pc EXCEPT ![f] = "idle"]
    /\ IF fret[f].data = Nil THEN UNCHANGED <<wallet, transactions>>
       ELSE /\ wallet' = SetBalance(wallet, fret[f].data.Address, fret[f].data.Balance).table
            /\ transactions' = InsertTxs(transactions, fret[f].data.Address,
                                         fret[f].data.Txs, Len(fret[f].data.Txs))
    /\ EndFetch(f)
    /\ UNCHANGED <<tx, crashed, hpc, haddr, hret, added, addresses, ai, results, ri, log,
                   gout>>

\* the goroutine AddAddress launched ends; what fetchAddressData returned is dropped
BgDone(f) ==
    /\ crashed = NoPanic
    /\ pc[f] = "returned"
    /\ pc' = [pc EXCEPT ![f] = "idle"]
    /\ EndFetch(f)
    /\ UNCHANGED <<wallet, transactions, tx, crashed, hpc, haddr, hret, added, addresses,
                   ai, results, ri, log, gout>>

\* ---------------------------------------------------------------- runner/main.go
\* the Wallet method returns to the handler: what it returned, whether the call
\* changed the stored tables, and whether it comes after an earlier AddAddress
\* of the address that returned without error, with no removal in between
Return(h, op, address, exists, err, changed) ==
    /\ hret' = [hret EXCEPT ![h] = [op |-> op, address |-> address, exists |-> exists,
                                    err |-> err, changed |-> changed,
                                    again |-> address \in Addrs /\ added[address]]]
    /\ hpc' = [hpc EXCEPT ![h] = "respond"]
    /\ haddr' = [haddr EXCEPT ![h] = ""]
    /\ added' = IF address \notin Addrs \/ err THEN added
                ELSE IF op = "add" THEN [added EXCEPT ![address] = TRUE]
                ELSE IF exists THEN [added EXCEPT ![address] = FALSE]
                ELSE added

\* Wallet.AddAddress, "if exists" returning (false, nil)
AddExistingAsNew(h, address) == Return(h, "add", address, FALSE, FALSE, FALSE)

\* Wallet.AddAddress, "if exists { return exists, nil }"
AddExisting(h, address) == Return(h, "add", address, TRUE, FALSE, FALSE)

\* addAddress calls Wallet.AddAddress, which runs up to "if exists": the length
\* check and CheckAddress
AddCall(h, address, fail) ==
    /\ crashed = NoPanic
    /\ hpc[h] = "idle"
    /\ LET c == CheckAddress(address, fail)
       IN  IF Len(address) = 0 \/ Len(address) > MaxAddressLen
           THEN Return(h, "add", address, FALSE, TRUE, FALSE)
           ELSE IF c.err THEN Return(h, "add", address, FALSE, TRUE, FALSE)
           ELSE IF c.exists THEN AddExisting(h, address)
           ELSE /\ hpc' = [hpc EXCEPT ![h] = "add"]
                /\ haddr' = [haddr EXCEPT ![h] = address]
                /\ UNCHANGED <<hret, added>>
    /\ UNCHANGED <<wallet, transactions, tx, crashed, pc, addresses, ai, results, ri,
                   faddr, offset, data, allTxs, fret, requests, log, gout>>

\* Wallet.AddAddress from data.AddAddress on: the insert, then the background
\* fetch of the new address is launched as goroutine f
AddInsert(h, f, fail) ==
    /\ crashed = NoPanic
    /\ hpc[h] = "add"
    /\ LET r == AddAddress(haddr[h], fail)
       IN  IF r.err
           THEN /\ Return(h, "add", haddr[h], FALSE, TRUE, FALSE)
                /\ UNCHANGED <<wallet, pc, faddr, offset, data, allTxs, fret, requests>>
           ELSE /\ pc[f] = "idle"
                /\ wallet' = r.wallet
                /\ StartFetch(f, haddr[h])
                /\ Return(h, "add", haddr[h], FALSE, FALSE, r.wallet # wallet)
    /\ UNCHANGED <<transactions, tx, crashed, addresses, ai, results, ri, log, gout>>

\* removeAddress calls Wallet.RemoveAddress, which runs up to "if !exists"
RemoveCall(h, address, fail) ==
    /\ crashed = NoPanic
    /\ hpc[h] = "idle"
    /\ LET c == CheckAddress(address, fail)
       IN  IF c.err THEN Return(h, "remove", address, FALSE, TRUE, FALSE)
           ELSE IF ~c.exists THEN Return(h, "remove", address, FALSE, FALSE, FALSE)
           ELSE /\ hpc' = [hpc EXCEPT ![h] = "remove"]
                /\ haddr' = [haddr EXCEPT ![h] = address]
                /\ UNCHANGED <<hret, added>>
    /\ UNCHANGED <<wallet, transactions, tx, crashed, pc, addresses, ai, results, ri,
                   faddr, offset, data, allTxs, fret, requests, log, gout>>

\* Wallet.RemoveAddress: "return exists, w.data.RemoveAddress(address)"
RemoveDo(h, failAt) ==
    /\ crashed = NoPanic
    /\ hpc[h] = "remove"
    /\ LET r == RemoveAddress(haddr[h], failAt)
       IN  /\ wallet' = r.wallet
           /\ transactions' = r.transactions
           /\ Return(h, "remove", haddr[h], TRUE, r.err,
                     r.wallet # wallet \/ r.transactions # transactions)
    /\ UNCHANGED <<tx, crashed, pc, addresses, ai, results, ri, faddr, offset,
                   data, allTxs, fret, requests, log, gout>>

\* addAddress / removeAddress: the handler answers the request from what the
\* Wallet method returned, and ends
Respond(h) ==
    /\ crashed = NoPanic
    /\ hpc[h] = "respond"
    /\ hpc' = [hpc EXCEPT ![h] = "idle"]
    /\ hret' = [hret EXCEPT ![h] = NoCall]
    /\ UNCHANGED <<wallet, transactions, tx, crashed, haddr, added, pc, addresses, ai,
                   results, ri, faddr, offset, data, allTxs, fret, requests, log, gout>>

\* ---------------------------------------------------------------- the program
\* main: a fresh data.db, no request served yet
Init ==
    /\ wallet = <<>>
    /\ transactions = <<>>
    /\ tx = [o \in Owners |-> Nil]
    /\ crashed = NoPanic
    /\ hpc = [h \in Handlers |-> "idle"]
    /\ haddr = [h \in Handlers |-> ""]
    /\ hret = [h \in Handlers |-> NoCall]
    /\ added = [a \in Addrs |-> FALSE]
    /\ pc = [f \in Fetchers |-> "idle"]
    /\ addresses = [p \in Passes |-> <<>>]
    /\ ai = [p \in Passes |-> 0]
    /\ results = [p \in Passes |-> <<>>]
    /\ ri = [p \in Passes |-> 0]
    /\ faddr = [f \in Fetchers |-> ""]
    /\ offset = [f \in Fetchers |-> 0]
    /\ data = [f \in Fetchers |-> Nil]
    /\ allTxs = [f \in Fetchers |-> <<>>]
    /\ fret = [f \in Fetchers |-> NoFetch]
    /\ log = [p \in Passes |-> {}]
    /\ requests = [f \in Fetchers |-> <<>>]
    /\ gout = NoGatewayCall

\* the program's runs with the handlers have one sync pass at a time
OnePass == {"p1"}

\* the statements of RemoveAddress the model lets the driver fail
RemoveFailures == {"none", "begin", "address", "txs", "commit"}

\* what the API answers in the program's runs: a history of 100 transactions
\* served in full pages, a request that fails, a record without tx_index
ProgramResponses(address, off) ==
    Responses(address, off, FailKinds, {100}, {7}, {50}, {"none", "noindex"})

Next ==
    \/ \E h \in Handlers, a \in AddrInputs, fail \in BOOLEAN : AddCall(h, a, fail)
    \/ \E h \in Handlers, f \in Bgs, fail \in BOOLEAN : AddInsert(h, f, fail)
    \/ \E h \in Handlers, a \in Addrs, fail \in BOOLEAN : RemoveCall(h, a, fail)
    \/ \E h \in Handlers, failAt \in RemoveFailures : RemoveDo(h, failAt)
    \/ \E h \in Handlers : Respond(h)
    \/ \E p \in OnePass, fail \in BOOLEAN : SyncStart(p, fail)
    \/ \E f \in Fetchers : \E r \in ProgramResponses(faddr[f], offset[f]) : FetchPage(f, r)
    \/ \E f \in Fetchers : PageSleep(f)
    \/ \E p \in Passes : FetchReturn(p)
    \/ \E p \in Passes : AddrSleep(p)
    \/ \E p \in Passes, fail \in BOOLEAN : SyncBegin(p, fail)
    \/ \E p \in Passes, failBalance \in BOOLEAN, failAt \in {0, 1, Limit} :
         SyncPersist(p, failBalance, failAt)
    \/ \E p \in Passes, fail \in BOOLEAN : SyncCommit(p, fail)
    \/ \E f \in Bgs : BgDone(f)

Spec == Init /\ [][Next]_vars

\* ---------------------------------------------------------------- the sync pass
\* what pass p logged about the storage: a failed Begin, write or Commit
StorageFailures(p) ==
    {m \in log[p] : m[1] \in {"failed to begin transaction during sync",
                              "failed to update balance",
                              "failed to update transactions",
                              "failed to commit transaction"}}

\* the snapshots fetchAddressData returned to pass p
Snapshots(p) == {results[p][i] : i \in {j \in 1..Len(results[p]) : results[p][j] # Nil}}

\* the addresses whose fetch failed in pass p
BadFetches(p) == {a \in Addrs : <<"Bad fetch for address", a>> \in log[p]}

\* tables w and t hold snapshot d: its balance, and each of its transactions
\* among what getTransactionsQuery selects for its address
Reflects(w, t, d) ==
    /\ SelectBalance(w, d.Address) = [err |-> FALSE, balance |-> d.Balance]
    /\ \A i \in 1..Len(d.Txs) :
           \E j \in 1..Len(SelectTransactions(t, d.Address)) :
               SelectTransactions(t, d.Address)[j] = d.Txs[i].Data

\* the rows of address a in tables w and t
RowsOf(w, t, a) ==
    [wallet |-> SelectRows(w, {i \in 1..Len(w) : w[i].address = a}),
     transactions |-> SelectRows(t, {i \in 1..Len(t) : t[i].address = a})]

\* the step in which pass p ends: SyncWallets returns, or panics
PassEnds(p) ==
    /\ pc[p] = "persist"
    /\ pc'[p] = "done" \/ crashed'.by = p

\* a step of the persistence phase of pass p
PassPersists(p) ==
    /\ pc[p] \in {"begin", "persist"}
    /\ pc'[p] # pc[p] \/ ri'[p] # ri[p] \/ crashed'.by = p

\* C1: when a pass over a non-empty address set ends in which the fetch of A
\* succeeded and no storage write failed, storage holds A's snapshot: its
\* balance is the final_balance the API reported and its transactions include
\* every transaction of the snapshot.
C1_SyncStoresSnapshot ==
    [][\A p \in Passes :
         (PassEnds(p) /\ Len(addresses[p]) > 0 /\ StorageFailures(p)' = {}) =>
             \A d \in Snapshots(p) :
                 ExistsAddress(wallet', d.Address) => Reflects(wallet', transactions', d)]_vars

\* C3: in a pass over several addresses in which the fetch of one address
\* fails, every address is fetched all the same, the failure is logged only,
\* and when the pass ends the snapshots of the addresses whose fetch succeeded
\* are stored.
C3_FetchFailureIsolated ==
    [][\A p \in Passes :
         (PassEnds(p) /\ Len(addresses[p]) > 1 /\ BadFetches(p) # {}
            /\ Snapshots(p) # {} /\ StorageFailures(p)' = {}) =>
             /\ \A i \in 1..Len(addresses[p]) :
                    \/ addresses[p][i] \in BadFetches(p)
                    \/ \E d \in Snapshots(p) : d.Address = addresses[p][i]
             /\ \A d \in Snapshots(p) :
                    (d.Address \notin BadFetches(p) /\ ExistsAddress(wallet', d.Address))
                        => Reflects(wallet', transactions', d)
             /\ pc'[p] = "done"]_vars

\* C4: when a page fetch of an address fails, on the first page or on a later
\* one, fetchAddressData returns an error and no snapshot, no snapshot of the
\* address is kept for the persistence phase, and the persistence phase of that
\* pass leaves the stored rows of the address as they were.
C4_FailedPageNoSnapshot ==
    [][/\ \A f \in Fetchers :
            (pc[f] = "fetch" /\ pc'[f] = "returned"
               /\ ~requests'[f][Len(requests'[f])].ok) =>
                  fret'[f].data = Nil /\ fret'[f].err \in FailKinds
       /\ \A p \in Passes :
            /\ (pc[p] = "returned" /\ fret[p].err # "none" /\ pc'[p] = "addrSleep") =>
                   /\ results'[p] = results[p]
                   /\ faddr[p] \in BadFetches(p)'
            /\ PassPersists(p) =>
                   \A a \in BadFetches(p) :
                       /\ RowsOf(wallet', transactions', a) = RowsOf(wallet, transactions, a)
                       /\ \A d \in Snapshots(p) : d.Address # a]_vars

\* fetchAddressData has returned to a pass after its second page failed
C4_Witness ==
    \E p \in Passes :
        /\ pc[p] = "returned"
        /\ Len(requests[p]) = 3
        /\ requests[p][1].ok
        /\ ~requests[p][3].ok
        /\ fret[p].data = Nil
        /\ fret[p].err \in FailKinds

\* a record that json.Unmarshal accepts but whose tx_index is not a number or
\* whose hash is not a string
MalformedRecord(rawTx) ==
    rawTx.json /\ (rawTx.tx_index.kind # "number" \/ rawTx.hash.kind # "string")

\* C5: a page with a record whose tx_index or hash is absent or of the wrong
\* type makes fetchAddressData return an error for the record and no snapshot;
\* the process does not crash.
C5_MalformedRecordIsError ==
    [][\A f \in Fetchers :
         \A r \in ProgramResponses(faddr[f], offset[f]) :
            (/\ pc[f] = "fetch"
             /\ r.kind = "ok"
             /\ \E i \in 1..Len(r.Txs) : MalformedRecord(r.Txs[i])
             /\ FetchPage(f, r)) =>
                 /\ crashed' = NoPanic
                 /\ fret'[f] = [data |-> Nil, err |-> "record"]]_vars

\* C10: AddAddress of a valid address returns alreadyExists = false when the
\* address was not added before and true when it was, storage then holds
\* exactly one row of the address, and the call that returns true changes
\* nothing in storage.
C10_AddTwice ==
    \A h \in Handlers :
        (hpc[h] = "respond" /\ hret[h].op = "add" /\ ~hret[h].err) =>
            /\ hret[h].exists = hret[h].again
            /\ Len(RowsOf(wallet, transactions, hret[h].address).wallet) = 1
            /\ hret[h].exists => ~hret[h].changed

\* the second AddAddress of an address has returned
C10_Witness ==
    \E h \in Handlers :
        /\ hpc[h] = "respond"
        /\ hret[h].op = "add"
        /\ ~hret[h].err
        /\ hret[h].again
        /\ hret[h].exists

\* C12: RemoveAddress of an address that is not tracked reports not-found,
\* existed = false without error from Wallet.RemoveAddress and a row-count
\* error from DatabaseConnection.RemoveAddress, and leaves the stored tables
\* unchanged.
C12_RemoveUntracked ==
    [][\A h \in Handlers, a \in Addrs :
         (/\ hpc[h] = "idle"
          /\ ~ExistsAddress(wallet, a)
          /\ RemoveCall(h, a, FALSE)) =>
             /\ hret'[h].op = "remove"
             /\ ~hret'[h].exists /\ ~hret'[h].err /\ ~hret'[h].changed
             /\ wallet' = wallet /\ transactions' = transactions
             /\ RemoveAddress(a, "none") =
                    [err |-> TRUE, wallet |-> wallet, transactions |-> transactions]]_vars

\* Wallet.RemoveAddress has returned for an address that is not tracked
C12_Witness ==
    \E h \in Handlers :
        /\ hpc[h] = "respond"
        /\ hret[h].op = "remove"
        /\ ~hret[h].err
        /\ ~hret[h].exists
        /\ ~ExistsAddress(wallet, hret[h].address)

\* the requests and pauses of one fetchAddressData call alternate, a request first
Paced(reqs) ==
    \A i \in 1..Len(reqs) :
        reqs[i].kind = (IF i % 2 = 1 THEN "get" ELSE "sleep")

\* C14: within a pass requests are sequential and paced. A pass is one
\* goroutine and a request is one step of it, so it has one request in flight
\* at most; a request follows the start of the fetch of an address or a pause,
\* never another request; the fetch of an address starts with a request, not a
\* pause; and the fetch of a further address starts after the pause that
\* follows the address before it.
C14_PacedRequests ==
    [][\A p \in Passes :
         /\ Paced(requests'[p])
         /\ Len(requests'[p]) > Len(requests[p]) =>
                /\ Len(requests'[p]) = Len(requests[p]) + 1
                /\ pc[p] = (IF requests'[p][Len(requests'[p])].kind = "get"
                            THEN "fetch" ELSE "pageSleep")
         /\ (pc'[p] = "fetch" /\ pc[p] # "fetch") =>
                \/ pc[p] = "pageSleep" /\ requests'[p][Len(requests'[p])].kind = "sleep"
                \/ pc[p] = "addrSleep" /\ requests'[p] = <<>> /\ ai'[p] = ai[p] + 1
                \/ pc[p] \in {"idle", "done"} /\ requests'[p] = <<>> /\ ai'[p] = 1]_vars

\* a pass is fetching its second address and has paused between two pages
C14_Witness ==
    \E p \in Passes :
        /\ ai[p] = 2
        /\ pc[p] = "fetch"
        /\ Len(requests[p]) = 2
        /\ requests[p][2].kind = "sleep"

\* C15: what the fetch loop of a pass hands to the persistence phase is one
\* snapshot per address whose fetch succeeded and nothing else: no nil entry,
\* whether or not a fetch failed.
C15_ResultsAreSnapshots ==
    \A p \in Passes :
        pc[p] \in {"begin", "persist"} =>
            /\ \A i \in 1..Len(results[p]) : results[p][i] # Nil
            /\ \A i \in 1..Len(addresses[p]) :
                   Cardinality({j \in 1..Len(results[p]) :
                                  /\ results[p][j] # Nil
                                  /\ results[p][j].Address = addresses[p][i]})
                       = (IF addresses[p][i] \in BadFetches(p) THEN 0 ELSE 1)
            /\ Len(results[p]) = Len(addresses[p]) - Cardinality(BadFetches(p))

\* C16: in every state, also when RemoveAddress ran while a pass held a
\* snapshot of the address it removed, each stored transaction belongs to an
\* address that has a row in table wallet.
C16_NoOrphanedTransactions ==
    \A i \in 1..Len(transactions) : ExistsAddress(wallet, transactions[i].address)

\* a pass is in its persistence phase with the snapshot of an address that
\* RemoveAddress has removed since it was fetched
C16_Witness ==
    \E p \in Passes :
        /\ pc[p] = "persist"
        /\ tx[p] # Nil
        /\ \E d \in Snapshots(p) : ~ExistsAddress(wallet, d.Address)

\* ---------------------------------------------------------------- the gateway alone
\* The exported methods of DatabaseConnection, called in any order by a caller
\* that holds at most one transaction, "g".

\* the transactions the caller hands to UpdateTransactions: index 9 in two
\* versions that differ in hash and payload, and index 10
GatewayTxs ==
    {[Index |-> 9, Hash |-> 91, Data |-> 91], [Index |-> 9, Hash |-> 92, Data |-> 92],
     [Index |-> 10, Hash |-> 101, Data |-> 101]}
GatewayTxLists ==
    {<<>>} \cup {<<t>> : t \in GatewayTxs}
    \cup {<<t, u>> : t \in {x \in GatewayTxs : x.Index = 9},
                     u \in {x \in GatewayTxs : x.Index = 10}}
GatewaySnapshots ==
    {[Address |-> a, NumTxs |-> Len(l), Balance |-> 5, Txs |-> l] :
        a \in Addrs, l \in GatewayTxLists}

\* how many rows of table t differ from table u or are new in it
RowsChanged(t, u) ==
    Cardinality({i \in 1..Len(u) : i > Len(t) \/ t[i] # u[i]})

GatewayCall(op, address, err, rows, indexes, differs) ==
    gout' = [op |-> op, address |-> address, err |-> err, rows |-> rows,
             indexes |-> indexes, differs |-> differs]

GStartTransaction(fail) ==
    /\ tx["g"] = Nil
    /\ tx' = [tx EXCEPT !["g"] = StartTransaction(fail).tx]
    /\ GatewayCall("StartTransaction", "", StartTransaction(fail).err, 0, {}, FALSE)
    /\ UNCHANGED <<wallet, transactions, crashed, hpc, haddr, hret, added, pc, addresses,
                   ai, results, ri, faddr, offset, data, allTxs, fret, log, requests>>

GCommitTransaction(fail) ==
    /\ tx["g"] # Nil
    /\ wallet' = CommitTransaction(tx["g"], fail).wallet
    /\ transactions' = CommitTransaction(tx["g"], fail).transactions
    /\ tx' = [tx EXCEPT !["g"] = Nil]
    /\ GatewayCall("CommitTransaction", "", CommitTransaction(tx["g"], fail).err,
                   RowsChanged(transactions, CommitTransaction(tx["g"], fail).transactions),
                   {}, FALSE)
    /\ UNCHANGED <<crashed, hpc, haddr, hret, added, pc, addresses, ai, results, ri,
                   faddr, offset, data, allTxs, fret, log, requests>>

GAddAddress(address, fail) ==
    /\ wallet' = AddAddress(address, fail).wallet
    /\ GatewayCall("AddAddress", address, AddAddress(address, fail).err,
                   RowsChanged(wallet, AddAddress(address, fail).wallet), {}, FALSE)
    /\ UNCHANGED <<transactions, tx, crashed, hpc, haddr, hret, added, pc, addresses, ai,
                   results, ri, faddr, offset, data, allTxs, fret, log, requests>>

GRemoveAddress(address, failAt) ==
    /\ wallet' = RemoveAddress(address, failAt).wallet
    /\ transactions' = RemoveAddress(address, failAt).transactions
    /\ GatewayCall("RemoveAddress", address, RemoveAddress(address, failAt).err,
                   (Len(wallet) - Len(RemoveAddress(address, failAt).wallet))
                   + (Len(transactions) - Len(RemoveAddress(address, failAt).transactions)),
                   {}, FALSE)
    /\ UNCHANGED <<tx, crashed, hpc, haddr, hret, added, pc, addresses, ai, results, ri,
                   faddr, offset, data, allTxs, fret, log, requests>>

GUpdateBalance(address, balance, fail) ==
    /\ tx["g"] # Nil
    /\ LET r == UpdateBalance("g", tx["g"], address, balance, fail)
       IN  /\ tx' = [tx EXCEPT !["g"] = r.tx]
           /\ GatewayCall("UpdateBalance", address, r.err,
                          RowsChanged(TxWallet(tx["g"]), TxWallet(r.tx)), {}, FALSE)
    /\ UNCHANGED <<wallet, transactions, crashed, hpc, haddr, hret, added, pc, addresses,
                   ai, results, ri, faddr, offset, data, allTxs, fret, log, requests>>

GUpdateTransactions(d, failAt) ==
    /\ tx["g"] # Nil
    /\ failAt \in FailPoints(Len(d.Txs))
    /\ LET r == UpdateTransactions("g", tx["g"], d, failAt)
           before == TxTransactions(tx["g"])
       IN  /\ tx' = [tx EXCEPT !["g"] = r.tx]
           /\ GatewayCall("UpdateTransactions", d.Address, r.err,
                          RowsChanged(before, TxTransactions(r.tx)),
                          {d.Txs[i].Index : i \in 1..Len(d.Txs)},
                          \E i \in 1..Len(d.Txs), j \in 1..Len(before) :
                              /\ before[j].tx_index = IntToText(d.Txs[i].Index)
                              /\ before[j].data # d.Txs[i].Data)
    /\ UNCHANGED <<wallet, transactions, crashed, hpc, haddr, hret, added, pc, addresses,
                   ai, results, ri, faddr, offset, data, allTxs, fret, log, requests>>

GatewayNext ==
    \/ \E fail \in BOOLEAN : GStartTransaction(fail)
    \/ \E fail \in BOOLEAN : GCommitTransaction(fail)
    \/ \E a \in Addrs, fail \in BOOLEAN : GAddAddress(a, fail)
    \/ \E a \in Addrs, failAt \in RemoveFailures : GRemoveAddress(a, failAt)
    \/ \E a \in Addrs, fail \in BOOLEAN : GUpdateBalance(a, 5, fail)
    \/ \E d \in GatewaySnapshots, failAt \in 0..2 : GUpdateTransactions(d, failAt)

GatewaySpec == Init /\ [][GatewayNext]_vars

\* C8: applying a snapshot's transactions a second time changes zero rows, and
\* a stored transaction is never overwritten by the upsert, even when the new
\* payload differs.
C8_UpsertIdempotent ==
    tx["g"] # Nil =>
        \A d \in GatewaySnapshots :
            LET before == TxTransactions(tx["g"])
                once == UpdateTransactions("g", tx["g"], d, 0)
                twice == UpdateTransactions("g", once.tx, d, 0)
            IN  ~once.err =>
                    /\ ~twice.err
                    /\ RowsChanged(TxTransactions(once.tx), TxTransactions(twice.tx)) = 0
                    /\ Len(TxTransactions(twice.tx)) = Len(TxTransactions(once.tx))
                    /\ \A i \in 1..Len(before) : TxTransactions(once.tx)[i] = before[i]

\* an upsert of stored indexes with another payload has run and changed no row
C8_Witness ==
    /\ gout.op = "UpdateTransactions"
    /\ ~gout.err
    /\ gout.indexes # {}
    /\ gout.differs
    /\ gout.rows = 0

\* C9: the de-duplication key is scoped per address: after an upsert of index
\* i for an address a row of index i is stored under that address, also when
\* another address already has a row of index i.
C9_KeyScopedPerAddress ==
    (tx["g"] # Nil /\ gout.op = "UpdateTransactions" /\ ~gout.err) =>
        \A i \in gout.indexes :
            \E j \in 1..Len(TxTransactions(tx["g"])) :
                /\ TxTransactions(tx["g"])[j].tx_index = IntToText(i)
                /\ TxTransactions(tx["g"])[j].address = gout.address

\* C11: RemoveAddress of a tracked address is atomic: when it succeeds the
\* address row and every stored transaction of the address are gone, when it
\* fails the stored tables are as before, and the rows of other addresses stay
\* either way; the address row is never gone while its transactions remain.
C11_RemoveAtomic ==
    [][\A a \in Addrs :
         (/\ gout'.op = "RemoveAddress"
          /\ gout'.address = a
          /\ ExistsAddress(wallet, a)
          /\ \E failAt \in RemoveFailures : GRemoveAddress(a, failAt)) =>
             /\ gout'.err => wallet' = wallet /\ transactions' = transactions
             /\ ~gout'.err =>
                    RowsOf(wallet', transactions', a) = [wallet |-> <<>>, transactions |-> <<>>]
             /\ ExistsAddress(wallet', a) \/ RowsOf(wallet', transactions', a).transactions = <<>>
             /\ \A b \in Addrs \ {a} :
                    RowsOf(wallet', transactions', b) = RowsOf(wallet, transactions, b)]_vars

\* RemoveAddress has deleted an address row together with stored transactions
C11_Witness ==
    /\ gout.op = "RemoveAddress"
    /\ ~gout.err
    /\ gout.rows >= 2
    /\ RowsOf(wallet, transactions, gout.address) = [wallet |-> <<>>, transactions |-> <<>>]

\* C13: UpdateBalance for an address that has no row in storage fails with an
\* error and changes nothing; an UpdateBalance that returns without error has
\* written the balance of exactly one row.
C13_UpdateBalanceRowCount ==
    [][\A a \in Addrs :
         (/\ gout'.op = "UpdateBalance"
          /\ gout'.address = a
          /\ tx["g"] # Nil
          /\ \E fail \in BOOLEAN : GUpdateBalance(a, 5, fail)) =>
             LET before == TxWallet(tx["g"])
                 after == TxWallet(tx'["g"])
             IN  /\ ~ExistsAddress(before, a) => gout'.err /\ after = before
                 /\ ~gout'.err =>
                        /\ Len(RowsOf(before, <<>>, a).wallet) = 1
                        /\ SelectBalance(after, a) = [err |-> FALSE, balance |-> 5]
                        /\ \A b \in Addrs \ {a} :
                               RowsOf(after, <<>>, b) = RowsOf(before, <<>>, b)]_vars

\* UpdateBalance was called for an address without a row and returned an error
C13_Witness ==
    /\ gout.op = "UpdateBalance"
    /\ gout.err
    /\ tx["g"] # Nil
    /\ ~ExistsAddress(TxWallet(tx["g"]), gout.address)
    /\ TxWallet(tx["g"]) # <<>>

RECURSIVE TextToInt(_)
\* the number a TEXT of decimal digits denotes
TextToInt(s) ==
    IF s = <<>> THEN 0
    ELSE 10 * TextToInt(SubSeq(s, 1, Len(s) - 1)) + s[Len(s)]

\* C19: GetTransactions of an address returns the payloads of exactly the rows
\* stored for the address, the row of the greater index first, indexes
\* compared as numbers whatever their numbers of digits.
C19_NumericDescending ==
    \A a \in Addrs :
        LET rows == {transactions[i] : i \in {j \in 1..Len(transactions) :
                                                transactions[j].address = a}}
            result == GetTransactions(a)
            IndexOf(payload) == TextToInt((CHOOSE r \in rows : r.data = payload).tx_index)
        IN  /\ Len(result) = Cardinality(rows)
            /\ {result[i] : i \in 1..Len(result)} = {r.data : r \in rows}
            /\ \A i, j \in 1..Len(result) :
                   i < j => IndexOf(result[i]) > IndexOf(result[j])

\* ---------------------------------------------------------------- two passes
\* syncWallets is requested while a pass is running: every request launches
\* SyncWallets in a goroutine of its own. The wallet holds no address or one.

\* what the API answers here: full pages of a history of 100, or a failed request
PassResponses(address, off) ==
    Responses(address, off, {"status"}, {100}, {7}, {50}, {"none"})

PassInit ==
    /\ \E w \in {<<>>, <<[address |-> "A", balance |-> 0]>>} :
           /\ wallet = w
           /\ added = [a \in Addrs |-> ExistsAddress(w, a)]
    /\ transactions = <<>>
    /\ tx = [o \in Owners |-> Nil]
    /\ crashed = NoPanic
    /\ hpc = [h \in Handlers |-> "idle"]
    /\ haddr = [h \in Handlers |-> ""]
    /\ hret = [h \in Handlers |-> NoCall]
    /\ pc = [f \in Fetchers |-> "idle"]
    /\ addresses = [p \in Passes |-> <<>>]
    /\ ai = [p \in Passes |-> 0]
    /\ results = [p \in Passes |-> <<>>]
    /\ ri = [p \in Passes |-> 0]
    /\ faddr = [f \in Fetchers |-> ""]
    /\ offset = [f \in Fetchers |-> 0]
    /\ data = [f \in Fetchers |-> Nil]
    /\ allTxs = [f \in Fetchers |-> <<>>]
    /\ fret = [f \in Fetchers |-> NoFetch]
    /\ log = [p \in Passes |-> {}]
    /\ requests = [f \in Fetchers |-> <<>>]
    /\ gout = NoGatewayCall

PassNext ==
    \/ \E p \in Passes, fail \in BOOLEAN : SyncStart(p, fail)
    \/ \E p \in Passes : \E r \in PassResponses(faddr[p], offset[p]) : FetchPage(p, r)
    \/ \E p \in Passes : PageSleep(p)
    \/ \E p \in Passes : FetchReturn(p)
    \/ \E p \in Passes : AddrSleep(p)
    \/ \E p \in Passes, fail \in BOOLEAN : SyncBegin(p, fail)
    \/ \E p \in Passes : SyncPersist(p, FALSE, 0)
    \/ \E p \in Passes, fail \in BOOLEAN : SyncCommit(p, fail)

TwoPassSpec == PassInit /\ [][PassNext]_vars

\* a pass over a non-empty address set is running: SyncWallets was launched,
\* has addresses to fetch and has not returned
Running(p) == pc[p] \notin {"idle", "done"} /\ addresses[p] # <<>>

\* C17: a pass started while another is running proceeds independently of it:
\* while both run, fetching their addresses, neither is stopped before it
\* returns, so that each goes on to its own commit.
C17_IndependentPasses ==
    [][\A p \in Passes :
         (Running(p) /\ \E q \in Passes \ {p} : Running(q)) => pc'[p] # "idle"]_vars

\* ---------------------------------------------------------------- one fetch
\* what the API may answer to one fetchAddressData call: any failure, totals
\* and page sizes that need not agree with each other, any malformed record
SourceTotals == {0, 20, 100, 120}
SourceResponses(address, off) ==
    Responses(address, off, FailKinds, SourceTotals, {3, 7}, {0, 20, 50},
              {"none", "json", "noindex", "indextype", "nohash", "hashtype"})

\* AddAddress of an address has returned and its background fetch has begun
FetchInit ==
    \E a \in Addrs :
        /\ wallet = <<[address |-> a, balance |-> 0]>>
        /\ transactions = <<>>
        /\ tx = [o \in Owners |-> Nil]
        /\ crashed = NoPanic
        /\ hpc = [h \in Handlers |-> "idle"]
        /\ haddr = [h \in Handlers |-> ""]
        /\ hret = [h \in Handlers |-> NoCall]
        /\ added = [b \in Addrs |-> b = a]
        /\ pc = [f \in Fetchers |-> IF f = "bg" THEN "fetch" ELSE "idle"]
        /\ addresses = [p \in Passes |-> <<>>]
        /\ ai = [p \in Passes |-> 0]
        /\ results = [p \in Passes |-> <<>>]
        /\ ri = [p \in Passes |-> 0]
        /\ faddr = [f \in Fetchers |-> IF f = "bg" THEN a ELSE ""]
        /\ offset = [f \in Fetchers |-> 0]
        /\ data = [f \in Fetchers |-> Nil]
        /\ allTxs = [f \in Fetchers |-> <<>>]
        /\ fret = [f \in Fetchers |-> NoFetch]
        /\ log = [p \in Passes |-> {}]
        /\ requests = [f \in Fetchers |-> <<>>]
        /\ gout = NoGatewayCall

FetchNext ==
    \/ \E r \in SourceResponses(faddr["bg"], offset["bg"]) : FetchPage("bg", r)
    \/ PageSleep("bg")
    \/ BgDone("bg")

FetchSpec == FetchInit /\ [][FetchNext]_vars

\* ---------------------------------------------------------------- properties
\* the page requests fetcher f has made in its fetchAddressData call
Gets(f) == SelectSeq(requests[f], LAMBDA e : e.kind = "get")

RECURSIVE SumCounts(_)
SumCounts(gets) == IF gets = <<>> THEN 0 ELSE Head(gets).count + SumCounts(Tail(gets))

CeilDiv(a, b) == (a + b - 1) \div b

\* every answer so far came from a source with a stable total t that serves full
\* pages until its records run out
StableSource(f, t) ==
    \A i \in 1..Len(Gets(f)) :
        /\ Gets(f)[i].ok
        /\ Gets(f)[i].ntx = t
        /\ Gets(f)[i].count = Min(Limit, Max(0, t - Gets(f)[i].offset))

\* fetcher f has returned a snapshot, after n page requests at offsets 0, 50, ...
FetchedPages(f, n) ==
    /\ pc[f] = "returned"
    /\ fret[f].err = "none"
    /\ Len(Gets(f)) = n
    /\ \A i \in 1..n : Gets(f)[i].offset = (i - 1) * Limit

\* C6 as stated: against a stable source of total T, a sync that returns a
\* snapshot has fetched exactly ceil(T/50) pages at offsets 0, 50, 100, ...; for
\* T = 120 they hold 50, 50 and 20 records.
C6_CeilPages ==
    \A f \in Fetchers, t \in SourceTotals :
        (pc[f] = "returned" /\ fret[f].err = "none" /\ StableSource(f, t))
        => /\ FetchedPages(f, CeilDiv(t, Limit))
           /\ t = 120 => [i \in 1..3 |-> Gets(f)[i].count] = <<50, 50, 20>>

\* C6 amended: the number of pages is max(1, ceil(T/50)): the first page is
\* always fetched, also when T = 0.
C6_CeilPagesAtLeastOne ==
    \A f \in Fetchers, t \in SourceTotals :
        (pc[f] = "returned" /\ fret[f].err = "none" /\ StableSource(f, t))
        => /\ FetchedPages(f, Max(1, CeilDiv(t, Limit)))
           /\ t = 120 => [i \in 1..3 |-> Gets(f)[i].count] = <<50, 50, 20>>

C6_Witness ==
    \E f \in Fetchers :
        /\ pc[f] = "returned" /\ fret[f].err = "none" /\ StableSource(f, 120)
        /\ Len(Gets(f)) = 3
        /\ Len(fret[f].data.Txs) = 120

\* C7: a page of fewer than 50 records is the last request of the fetch, also
\* when the total it reports is larger than what was received; the fetch has
\* returned, and a snapshot it returns holds the records received.
C7_ShortPageEnds ==
    \A f \in Fetchers :
        \A i \in 1..Len(requests[f]) :
            (requests[f][i].kind = "get" /\ requests[f][i].ok
             /\ requests[f][i].count < Limit)
            => /\ i = Len(requests[f])
               /\ pc[f] = "returned"
               /\ fret[f].err = "none"
                  => fret[f].data.Txs = allTxs[f] /\ Len(allTxs[f]) = SumCounts(Gets(f))

C7_Witness ==
    \E f \in Fetchers :
        /\ pc[f] = "returned" /\ fret[f].err = "none"
        /\ Len(Gets(f)) = 2
        /\ Gets(f)[2].count = 20
        /\ Gets(f)[2].ntx = 120
        /\ Len(fret[f].data.Txs) = 70

\* C18: whatever the API answers, with totals that may change from page to
\* page, when every response reports a total of at most T the fetch of an
\* address makes at most max(1, ceil(T/50)) page requests, is over once it has
\* made that many, and does not return before it has made one.
C18_BoundedPages ==
    \A f \in Fetchers, t \in SourceTotals :
        (\A i \in 1..Len(Gets(f)) : Gets(f)[i].ntx <= t) =>
            /\ Len(Gets(f)) <= Max(1, CeilDiv(t, Limit))
            /\ Len(Gets(f)) = Max(1, CeilDiv(t, Limit)) => pc[f] = "returned"
            /\ pc[f] = "returned" => Len(Gets(f)) >= 1

\* a fetch has returned after three pages whose totals were not all the same
C18_Witness ==
    \E f \in Fetchers :
        /\ pc[f] = "returned"
        /\ Len(Gets(f)) = 3
        /\ Gets(f)[1].ntx # Gets(f)[2].ntx
        /\ \A i \in 1..3 : Gets(f)[i].ntx <= 120

\* C20: the address, balance and count of the snapshot are those of the first
\* page and no later page replaces them; the transaction list grows by the
\* records of each page, in the order fetched, and the snapshot returned holds
\* that list.
C20_FirstPageFields ==
    [][\A f \in Fetchers :
         \A r \in SourceResponses(faddr[f], offset[f]) :
            (/\ pc[f] = "fetch"
             /\ r.kind = "ok"
             /\ FetchPage(f, r)
             /\ pc'[f] \in {"pageSleep", "returned"}
             /\ pc'[f] = "returned" => fret'[f].err = "none") =>
                 /\ data'[f] = (IF data[f] = Nil
                                THEN [Address |-> r.Address, NumTxs |-> r.NTx,
                                      Balance |-> r.FinalBalance]
                                ELSE data[f])
                 /\ allTxs'[f] = allTxs[f] \o
                        [i \in 1..Len(r.Txs) |->
                           [Index |-> r.Txs[i].tx_index.value,
                            Hash |-> r.Txs[i].hash.value, Data |-> r.Txs[i].bytes]]
                 /\ \A i \in 1..Len(allTxs'[f]) : allTxs'[f][i].Index = i
                 /\ pc'[f] = "returned" =>
                        fret'[f].data = [Address |-> data'[f].Address,
                                         NumTxs |-> data'[f].NumTxs,
                                         Balance |-> data'[f].Balance,
                                         Txs |-> allTxs'[f]]]_vars

\* a snapshot was returned after two pages that reported different totals: it
\* has the total of the first and the records of both
C20_Witness ==
    \E f \in Fetchers :
        /\ pc[f] = "returned"
        /\ fret[f].err = "none"
        /\ Len(Gets(f)) = 2
        /\ Gets(f)[1].ntx # Gets(f)[2].ntx
        /\ fret[f].data.NumTxs = Gets(f)[1].ntx
        /\ Len(fret[f].data.Txs) = Gets(f)[1].count + Gets(f)[2].count

\* C21: the fetch that AddAddress launches in the background never writes to
\* storage: with no sync pass run, an added address has balance 0 and no
\* stored transaction, whatever the fetch returns and however it fails.
C21_BackgroundFetchWritesNothing ==
    \A a \in Addrs :
        added[a] =>
            /\ GetBalance(a) = [err |-> FALSE, balance |-> 0]
            /\ GetTransactions(a) = <<>>
            /\ \A i \in 1..Len(transactions) : transactions[i].address # a

\* the background fetch of an added address has returned a snapshot with
\* transactions and a balance other than 0, and the stored balance is still 0
C21_Witness ==
    \E f \in Bgs :
        /\ pc[f] = "returned"
        /\ fret[f].err = "none"
        /\ fret[f].data.Balance # 0
        /\ Len(fret[f].data.Txs) > 0
        /\ added[fret[f].data.Address]
        /\ GetBalance(fret[f].data.Address).balance = 0

====
